---------------------------- MODULE Spec2Model ----------------------------
(***************************************************************************)
(* Huffman coding engine of project_part_b.py: build_huffman_tree,         *)
(* build_codes, entropy_from_counts, average_code_length and encode_text.  *)
(*                                                                         *)
(* A frequency table is the sequence of its (symbol, count) items in the   *)
(* dict's iteration order.  Nodes live in an arena: `nodes` is a sequence  *)
(* of Node records, a node's identity is its index, and a child field      *)
(* holds an index, or NoNode for Python's None.  A bitstring is a sequence *)
(* of the digits 0 and 1.                                                  *)
(***************************************************************************)
EXTENDS Integers, Sequences, FiniteSets, TLC

\* Bounds of the model.
MaxSyms == 3
MaxCount == 2
MaxTextLen == 3

Symbols == {"A", "B", "C", "D"}

\* Python's None, as a symbol and as a child reference.
None == "None"
NoNode == 0

VARIABLES
  freq_map,   \* the caller's frequency table, items in iteration order
  nodes,      \* the Node objects created so far
  heap,       \* build_huffman_tree's heap: a set of (f, uid, node) tuples
  uid,        \* build_huffman_tree's counter
  issued,     \* every uid that entered the heap so far
  merges,     \* iterations of the while loop completed so far
  root,       \* the node build_huffman_tree returned, NoNode before
  codes,      \* the dict build_codes returned
  text,       \* the text handed to encode_text
  encoded,    \* the bitstring encode_text returned
  err,        \* the exception that reached the caller, "none" before
  pc          \* where the caller is

vars == <<freq_map, nodes, heap, uid, issued, merges, root, codes, text, encoded, err, pc>>

----------------------------------------------------------------------------
\* Helpers over sequences and sets.

RECURSIVE SumSeq(_)
SumSeq(s) == IF s = <<>> THEN 0 ELSE Head(s) + SumSeq(Tail(s))

\* The (symbol, count) items of every frequency table within the bounds:
\* distinct symbols, every count > 0.
FreqMaps ==
  UNION {{s \in [1..n -> Symbols \X (1..MaxCount)] :
            \A i, j \in 1..n : i # j => s[i][1] # s[j][1]} : n \in 0..MaxSyms}

\* Four-symbol tables with counts near 3 * 10^7, where the rounding of the
\* metrics shows.
LargeCounts == {29999999, 30000000}
LargeMaps ==
  {<<<<"A", c[1]>>, <<"B", c[2]>>, <<"C", c[3]>>, <<"D", c[4]>>>> :
     c \in [1..4 -> LargeCounts]}

Texts == UNION {[1..n -> Symbols] : n \in 0..MaxTextLen}

Keys(fm) == {fm[i][1] : i \in DOMAIN fm}
Values(fm) == [i \in DOMAIN fm |-> fm[i][2]]
CountOf(fm, sym) == LET i == CHOOSE k \in DOMAIN fm : fm[k][1] = sym IN fm[i][2]

----------------------------------------------------------------------------
\* class Node

Node(f, sym, l, r) == [freq |-> f, symbol |-> sym, left |-> l, right |-> r]

\* Tuple orders a slip would give: the largest entry first; the uid alone.
TupleGreater(a, b) == a[1] > b[1] \/ (a[1] = b[1] /\ a[2] > b[2])
TupleLessUidOnly(a, b) == a[2] < b[2]

\* Python's tuple order on heap entries (f, uid, node).  The uids are
\* distinct, so the comparison never reaches the Node component.
TupleLess(a, b) == a[1] < b[1] \/ (a[1] = b[1] /\ a[2] < b[2])

\* heap[0]: the smallest entry of a nonempty heap.
HeapMin(h) == CHOOSE e \in h : \A o \in h \ {e} : TupleLess(e, o)

\* The for loop of build_huffman_tree: one leaf pushed per item, in
\* iteration order, each with the next uid.
RECURSIVE PushLeaves(_, _)
PushLeaves(fm, st) ==
  IF fm = <<>> THEN st
  ELSE LET sym == Head(fm)[1]
           f == Head(fm)[2]
           ns == Append(st.nodes, Node(f, sym, NoNode, NoNode))
       IN PushLeaves(Tail(fm),
                     [nodes |-> ns,
                      heap |-> st.heap \cup {<<f, st.uid, Len(ns)>>},
                      uid |-> st.uid + 1])

EmptyBuild == [nodes |-> <<>>, heap |-> {}, uid |-> 0]

\* The single-symbol branch with the two children exchanged.
SingleRootSwapped(st) ==
  LET only == CHOOSE e \in st.heap : TRUE
      withDummy == Append(st.nodes, Node(0, None, NoNode, NoNode))
      dummy == Len(withDummy)
  IN Append(withDummy, Node(only[1], None, dummy, only[3]))

\* The single-symbol branch: a synthetic root over the only leaf and a dummy.
SingleRoot(st) ==
  LET only == HeapMin(st.heap)
      withDummy == Append(st.nodes, Node(0, None, NoNode, NoNode))
      dummy == Len(withDummy)
  IN Append(withDummy, Node(only[1], None, only[3], dummy))

\* The loop body with the children exchanged (second pop on the left), and
\* with the first pop used for both children.
MergeOnceSwapped(st) ==
  LET e1 == CHOOSE e \in st.heap : \A o \in st.heap \ {e} : TupleLess(e, o)
      h1 == st.heap \ {e1}
      e2 == CHOOSE e \in h1 : \A o \in h1 \ {e} : TupleLess(e, o)
      ns == Append(st.nodes, Node(e1[1] + e2[1], None, e2[3], e1[3]))
  IN [nodes |-> ns,
      heap |-> (h1 \ {e2}) \cup {<<e1[1] + e2[1], st.uid, Len(ns)>>},
      uid |-> st.uid + 1]

MergeOnceSameChild(st) ==
  LET e1 == CHOOSE e \in st.heap : \A o \in st.heap \ {e} : TupleLess(e, o)
      h1 == st.heap \ {e1}
      e2 == CHOOSE e \in h1 : \A o \in h1 \ {e} : TupleLess(e, o)
      ns == Append(st.nodes, Node(e1[1] + e2[1], None, e1[3], e1[3]))
  IN [nodes |-> ns,
      heap |-> (h1 \ {e2}) \cup {<<e1[1] + e2[1], st.uid, Len(ns)>>},
      uid |-> st.uid + 1]

\* One iteration of the while loop: two pops, one merged node, one push.
MergeOnce(st) ==
  LET e1 == HeapMin(st.heap)
      h1 == st.heap \ {e1}
      e2 == HeapMin(h1)
      h2 == h1 \ {e2}
      ns == Append(st.nodes, Node(e1[1] + e2[1], None, e1[3], e2[3]))
  IN [nodes |-> ns,
      heap |-> h2 \cup {<<e1[1] + e2[1], st.uid, Len(ns)>>},
      uid |-> st.uid + 1]

\* heap[0] that answers an empty list with a default entry.
ListFrontDefault(h) ==
  IF h = {} THEN [exc |-> "none", value |-> <<0, 0, NoNode>>]
  ELSE [exc |-> "none",
        value |-> CHOOSE e \in h : \A o \in h \ {e} : TupleLess(e, o)]

\* heap[0] on a Python list: IndexError when the list is empty.
ListFront(h) ==
  IF h = {} THEN [exc |-> "IndexError", value |-> <<0, 0, NoNode>>]
  ELSE [exc |-> "none", value |-> HeapMin(h)]

\* The while loop run to its end.
RECURSIVE RunMerges(_)
RunMerges(st) ==
  IF Cardinality(st.heap) > 1 THEN RunMerges(MergeOnce(st)) ELSE st

\* build_huffman_tree as a function of the table: the arena it leaves, the
\* node it returns and the exception it raises.
build_huffman_tree(fm) ==
  LET st == PushLeaves(fm, EmptyBuild)
  IN IF Cardinality(st.heap) = 1
     THEN LET ns == SingleRoot(st)
          IN [nodes |-> ns, root |-> Len(ns), exc |-> "none"]
     ELSE LET fin == RunMerges(st)
              top == ListFront(fin.heap)
          IN [nodes |-> fin.nodes, root |-> top.value[3], exc |-> top.exc]

----------------------------------------------------------------------------
\* build_codes

\* A path step a slip would give: 0 on the way right as well.
RightPathZero(path) == Append(path, 0)

LeftPath(path) == Append(path, 0)
RightPath(path) == Append(path, 1)

\* dfs(node, path), with the dict `cs` it writes into passed through.
RECURSIVE dfs(_, _, _, _)
dfs(ns, node, path, cs) ==
  IF ns[node].symbol # None
  THEN (ns[node].symbol :> (IF path # <<>> THEN path ELSE <<0>>)) @@ cs
  ELSE LET c1 == IF ns[node].left # NoNode
                 THEN dfs(ns, ns[node].left, LeftPath(path), cs)
                 ELSE cs
       IN IF ns[node].right # NoNode
          THEN dfs(ns, ns[node].right, RightPath(path), c1)
          ELSE c1

build_codes(ns, rt) == dfs(ns, rt, <<>>, <<>>)

----------------------------------------------------------------------------
\* encode_text

\* codes.get(ch, ""): an unknown symbol contributes nothing.
LookupGet(cs, ch) ==
  IF ch \in DOMAIN cs THEN [exc |-> "none", value |-> cs[ch]]
  ELSE [exc |-> "none", value |-> <<>>]

\* codes[ch]: KeyError when ch is no key of the dict.
Lookup(cs, ch) ==
  IF ch \in DOMAIN cs THEN [exc |-> "none", value |-> cs[ch]]
  ELSE [exc |-> "KeyError", value |-> <<>>]

\* "".join over the generator: the codewords in text order; the first
\* failing lookup ends the call and nothing is returned.
RECURSIVE Join(_, _, _)
Join(t, cs, acc) ==
  IF t = <<>> THEN [exc |-> "none", value |-> acc]
  ELSE LET c == Lookup(cs, Head(t))
       IN IF c.exc # "none" THEN [exc |-> c.exc, value |-> <<>>]
          ELSE Join(Tail(t), cs, acc \o c.value)

\* The join with each codeword put in front of what was joined before.
RECURSIVE JoinPrepend(_, _, _)
JoinPrepend(t, cs, acc) ==
  IF t = <<>> THEN [exc |-> "none", value |-> acc]
  ELSE IF Head(t) \notin DOMAIN cs THEN [exc |-> "KeyError", value |-> <<>>]
  ELSE JoinPrepend(Tail(t), cs, cs[Head(t)] \o acc)

encode_textPrepend(t, cs) == JoinPrepend(t, cs, <<>>)

encode_text(t, cs) == Join(t, cs, <<>>)

----------------------------------------------------------------------------
\* Python floats: IEEE 754 binary64, every operation rounded to nearest
\* with ties to even.  The values here are all >= 0 and far from overflow
\* and underflow.

\* Naturals of any size: little-endian digits in base 2^15, no leading zero
\* digit, <<>> for 0.
BigBase == 2 ^ 15

\* The digits d[1..n] as a sequence, leading zero digits dropped.
BSeq(d, n) ==
  LET top == IF \E i \in 1..n : d[i] # 0
             THEN CHOOSE i \in 1..n : d[i] # 0 /\ \A j \in (i + 1)..n : d[j] = 0
             ELSE 0
  IN SubSeq(d, 1, top)

BDigit(a, i) == IF i >= 1 /\ i <= Len(a) THEN a[i] ELSE 0

BFromInt(n) ==
  BSeq([i \in 1..3 |-> (n \div (BigBase ^ (i - 1))) % BigBase], 3)

\* a + b: position i receives a carry when a lower position overflows and
\* every position between is full.
BAdd(a, b) ==
  LET n == (IF Len(a) > Len(b) THEN Len(a) ELSE Len(b)) + 1
      s == [i \in 1..n |-> BDigit(a, i) + BDigit(b, i)] \o <<>>
      c == [i \in 1..n |->
              IF \E j \in 1..(i - 1) :
                   s[j] >= BigBase /\ \A k \in (j + 1)..(i - 1) : s[k] = BigBase - 1
              THEN 1 ELSE 0] \o <<>>
  IN BSeq([i \in 1..n |-> (s[i] + c[i]) % BigBase] \o <<>>, n)

\* a - b for a >= b, with the borrows found the same way
BSub(a, b) ==
  LET n == Len(a)
      s == [i \in 1..n |-> BDigit(a, i) - BDigit(b, i)] \o <<>>
      c == [i \in 1..n |->
              IF \E j \in 1..(i - 1) :
                   s[j] < 0 /\ \A k \in (j + 1)..(i - 1) : s[k] = 0
              THEN 1 ELSE 0] \o <<>>
  IN BSeq([i \in 1..n |-> (s[i] - c[i] + BigBase) % BigBase] \o <<>>, n)

BLess(a, b) ==
  IF Len(a) # Len(b) THEN Len(a) < Len(b)
  ELSE \E i \in 1..Len(a) : a[i] < b[i] /\ \A j \in (i + 1)..Len(a) : a[j] = b[j]

RECURSIVE SumTo(_, _)
SumTo(f, n) == IF n = 0 THEN 0 ELSE f[n] + SumTo(f, n - 1)

\* a * b: the digit products of each position, low and high halves summed
\* apart, then the three rows added.
BMul(a, b) ==
  IF a = <<>> \/ b = <<>> THEN <<>>
  ELSE LET n == Len(a) + Len(b)
           lo == [k \in 1..n |->
                    SumTo([i \in 1..Len(a) |->
                             (a[i] * BDigit(b, k + 1 - i)) % BigBase] \o <<>>, Len(a))] \o <<>>
           hi == [k \in 1..n |->
                    SumTo([i \in 1..Len(a) |->
                             (a[i] * BDigit(b, k - i)) \div BigBase] \o <<>>, Len(a))] \o <<>>
           t == [k \in 1..n |-> lo[k] + hi[k]] \o <<>>
       IN BAdd(BSeq([k \in 1..n |-> t[k] % BigBase] \o <<>>, n),
               BSeq([k \in 1..(n + 1) |->
                       IF k = 1 THEN 0 ELSE t[k - 1] \div BigBase] \o <<>>, n + 1))

\* a * 2^s
BShl(a, s) ==
  IF a = <<>> THEN a
  ELSE BMul([i \in 1..(s \div 15 + 1) |->
               IF i = s \div 15 + 1 THEN 2 ^ (s % 15) ELSE 0] \o <<>>, a)

\* floor(a / 2^s)
BShr(a, s) ==
  LET d == s \div 15
      b == s % 15
      n == Len(a) - d
  IN IF n <= 0 THEN <<>>
     ELSE BSeq([i \in 1..n |->
                  (a[i + d] \div (2 ^ b))
                    + (BDigit(a, i + d + 1) % (2 ^ b)) * (2 ^ (15 - b))] \o <<>>, n)

\* a mod 2^s # 0
BLowNonzero(a, s) ==
  \/ \E i \in 1..(s \div 15) : BDigit(a, i) # 0
  \/ BDigit(a, s \div 15 + 1) % (2 ^ (s % 15)) # 0

BitLen(a) ==
  IF a = <<>> THEN 0
  ELSE (Len(a) - 1) * 15
         + (CHOOSE k \in 1..15 : 2 ^ (k - 1) <= a[Len(a)] /\ a[Len(a)] < 2 ^ k)

BOdd(a) == a # <<>> /\ a[1] % 2 = 1

\* An IEEE 754 binary64 value >= 0: m * 2^e with 2^52 <= m < 2^53, or m = 0.
FZero == [m |-> <<>>, e |-> 0]

\* N * 2^e (plus something below one unit of N when sticky) rounded to
\* nearest, ties to even.
RoundTo53(N, e, sticky) ==
  IF N = <<>> THEN FZero
  ELSE LET L == BitLen(N)
       IN IF L <= 53 THEN [m |-> BShl(N, 53 - L), e |-> e - (53 - L)]
          ELSE LET s == L - 53
                   q == BShr(N, s)
                   half == BOdd(BShr(N, s - 1))
                   rest == BLowNonzero(N, s - 1) \/ sticky
                   q2 == IF half /\ (rest \/ BOdd(q)) THEN BAdd(q, <<1>>) ELSE q
               IN IF BitLen(q2) = 54 THEN [m |-> BShr(q2, 1), e |-> e + s + 1]
                  ELSE [m |-> q2, e |-> e + s]

FromInt(n) == RoundTo53(BFromInt(n), 0, FALSE)

FMul(a, b) ==
  IF a.m = <<>> \/ b.m = <<>> THEN FZero
  ELSE RoundTo53(BMul(a.m, b.m), a.e + b.e, FALSE)

FAdd(a, b) ==
  IF a.m = <<>> THEN b
  ELSE IF b.m = <<>> THEN a
  ELSE LET e == IF a.e < b.e THEN a.e ELSE b.e
       IN RoundTo53(BAdd(BShl(a.m, a.e - e), BShl(b.m, b.e - e)), e, FALSE)

\* One digit of the quotient: rem / d = (q + rem' / d) / 2^k, until q has
\* 56 digits.
DivStep(s) ==
  IF BitLen(s.q) = 56 THEN s
  ELSE IF BLess(s.rem, s.d)
  THEN [rem |-> BShl(s.rem, 1), d |-> s.d, q |-> BShl(s.q, 1), k |-> s.k + 1]
  ELSE [rem |-> BShl(BSub(s.rem, s.d), 1), d |-> s.d,
        q |-> BAdd(BShl(s.q, 1), <<1>>), k |-> s.k + 1]

RECURSIVE DivRun(_)
DivRun(s) ==
  IF BitLen(s.q) = 56 THEN s
  ELSE DivRun(DivStep(DivStep(DivStep(DivStep(s)))))

FDiv(a, b) ==
  IF a.m = <<>> THEN FZero
  ELSE LET r == DivRun([rem |-> a.m, d |-> b.m, q |-> <<>>, k |-> -1])
       IN RoundTo53(r.q, a.e - b.e - r.k, r.rem # <<>>)

\* One more digit after the point of log2(Y / 2^150), for
\* 2^150 <= Y < 2^151: square, and halve when the square reaches 2.
LogStep(s) ==
  LET sq == BShr(BMul(s.Y, s.Y), 150)
  IN IF BitLen(sq) = 152
     THEN [Y |-> BShr(sq, 1), F |-> BAdd(BShl(s.F, 1), <<1>>), k |-> s.k + 1]
     ELSE [Y |-> sq, F |-> BShl(s.F, 1), k |-> s.k + 1]

RECURSIVE LogRun(_)
LogRun(s) ==
  IF s.k = 64 THEN s
  ELSE LogRun(LogStep(LogStep(LogStep(LogStep(s)))))

\* math.log2(x) for x >= 1
FLog2(x) ==
  LET n == x.e + 52
  IN IF BSub(x.m, BShl(<<1>>, 52)) = <<>> THEN FromInt(n)
     ELSE RoundTo53(BAdd(BShl(BFromInt(n), 64),
                         LogRun([Y |-> BShl(x.m, 98), F |-> <<>>, k |-> 0]).F),
                    -64, TRUE)

FLeq(a, b) ==
  IF a.m = <<>> THEN TRUE
  ELSE IF b.m = <<>> THEN FALSE
  ELSE a.e < b.e \/ (a.e = b.e /\ ~BLess(b.m, a.m))

----------------------------------------------------------------------------
\* entropy_from_counts and average_code_length

\* for c in counts.values(): p = c / total; H += p * math.log2(1 / p)
RECURSIVE EntropyLoop(_, _, _)
EntropyLoop(cs, total, H) ==
  IF cs = <<>> THEN H
  ELSE LET p == FDiv(FromInt(Head(cs)), FromInt(total))
       IN EntropyLoop(Tail(cs), total,
                      FAdd(H, FMul(p, FLog2(FDiv(FromInt(1), p)))))

entropy_from_counts(counts) ==
  EntropyLoop(Values(counts), SumSeq(Values(counts)), FZero)

\* for sym, c in counts.items(): p = c / total; L += p * len(codes[sym])
RECURSIVE AvgLoop(_, _, _, _)
AvgLoop(items, cs, total, L) ==
  IF items = <<>> THEN L
  ELSE LET p == FDiv(FromInt(Head(items)[2]), FromInt(total))
       IN AvgLoop(Tail(items), cs, total,
                  FAdd(L, FMul(p, FromInt(Len(cs[Head(items)[1]])))))

average_code_length(counts, cs) ==
  AvgLoop(counts, cs, SumSeq(Values(counts)), FZero)

\* main: efficiency = (H / Lbar) * 100 if Lbar > 0 else 0.0
Efficiency(H, Lbar) ==
  IF Lbar.m # <<>> THEN FMul(FDiv(H, Lbar), FromInt(100)) ELSE FZero

----------------------------------------------------------------------------
Init ==
  /\ freq_map \in FreqMaps \cup LargeMaps
  /\ nodes = <<>>
  /\ heap = {}
  /\ uid = 0
  /\ issued = {}
  /\ merges = 0
  /\ root = NoNode
  /\ codes = <<>>
  /\ text = <<>>
  /\ encoded = <<>>
  /\ err = "none"
  /\ pc = "start"

\* build_huffman_tree up to the while loop.
BuildStart ==
  /\ pc = "start"
  /\ LET st == PushLeaves(freq_map, EmptyBuild)
     IN /\ heap' = st.heap
        /\ uid' = st.uid
        /\ IF Cardinality(st.heap) = 1
           THEN /\ nodes' = SingleRoot(st)
                /\ root' = Len(nodes')
                /\ pc' = "built"
           ELSE /\ nodes' = st.nodes
                /\ root' = root
                /\ pc' = "merge"
  /\ issued' = issued \cup {e[2] : e \in heap' \ heap}
  /\ UNCHANGED <<freq_map, merges, codes, text, encoded, err>>

\* One iteration of the while loop.
MergeStep ==
  /\ pc = "merge"
  /\ Cardinality(heap) > 1
  /\ LET st == MergeOnce([nodes |-> nodes, heap |-> heap, uid |-> uid])
     IN /\ nodes' = st.nodes
        /\ heap' = st.heap
        /\ uid' = st.uid
  /\ issued' = issued \cup {e[2] : e \in heap' \ heap}
  /\ merges' = merges + 1
  /\ UNCHANGED <<freq_map, root, codes, text, encoded, err, pc>>

\* The loop test fails: return heap[0][2].
BuildReturn ==
  /\ pc = "merge"
  /\ Cardinality(heap) <= 1
  /\ LET top == ListFront(heap)
     IN IF top.exc = "none"
        THEN /\ root' = top.value[3]
             /\ err' = err
             /\ pc' = "built"
        ELSE /\ root' = root
             /\ err' = top.exc
             /\ pc' = "failed"
  /\ UNCHANGED <<freq_map, nodes, heap, uid, issued, merges, codes, text, encoded>>

\* codes = build_codes(root)
BuildCodes ==
  /\ pc = "built"
  /\ codes' = build_codes(nodes, root)
  /\ pc' = "coded"
  /\ UNCHANGED <<freq_map, nodes, heap, uid, issued, merges, root, text, encoded, err>>

\* encoded = encode_text(t, codes), for any text t
EncodeText ==
  /\ pc = "coded"
  /\ \E t \in Texts :
       LET r == encode_text(t, codes)
       IN /\ text' = t
          /\ IF r.exc = "none"
             THEN /\ encoded' = r.value
                  /\ err' = err
                  /\ pc' = "encoded"
             ELSE /\ encoded' = encoded
                  /\ err' = r.exc
                  /\ pc' = "failed"
  /\ UNCHANGED <<freq_map, nodes, heap, uid, issued, merges, root, codes>>

Next == BuildStart \/ MergeStep \/ BuildReturn \/ BuildCodes \/ EncodeText

Spec == Init /\ [][Next]_vars

----------------------------------------------------------------------------
\* Views of the tree used to state the properties.

IsPrefix(a, b) == Len(a) <= Len(b) /\ SubSeq(b, 1, Len(a)) = a

\* Every node reachable from `node`, paired with the digits of the path that
\* leads to it (0 for a left edge, 1 for a right edge).
RECURSIVE Walk(_, _, _)
Walk(ns, node, path) ==
  {<<path, node>>}
    \cup (IF ns[node].left # NoNode
          THEN Walk(ns, ns[node].left, Append(path, 0)) ELSE {})
    \cup (IF ns[node].right # NoNode
          THEN Walk(ns, ns[node].right, Append(path, 1)) ELSE {})

IsChildless(ns, node) == ns[node].left = NoNode /\ ns[node].right = NoNode

Parents(ns, node) ==
  {<<p, side>> \in (DOMAIN ns) \X {"left", "right"} :
     IF side = "left" THEN ns[p].left = node ELSE ns[p].right = node}

\* The decoder of the round trip: walk from the root one digit at a time,
\* emit the symbol and restart at the root on reaching a childless node.
\* Digits that lead nowhere, or that stop short of a leaf, are reported.
RECURSIVE DecodeFrom(_, _, _, _, _)
DecodeFrom(ns, rt, cur, bits, out) ==
  IF bits = <<>> THEN (IF cur = rt THEN out ELSE Append(out, "incomplete"))
  ELSE LET nxt == IF Head(bits) = 0 THEN ns[cur].left ELSE ns[cur].right
       IN IF nxt = NoNode THEN Append(out, "stuck")
          ELSE IF IsChildless(ns, nxt)
          THEN DecodeFrom(ns, rt, rt, Tail(bits), Append(out, ns[nxt].symbol))
          ELSE DecodeFrom(ns, rt, nxt, Tail(bits), out)

Decode(ns, rt, bits) == DecodeFrom(ns, rt, rt, bits, <<>>)

Coded == pc \in {"coded", "encoded"} \/ (pc = "failed" /\ err = "KeyError")
NSyms == Len(freq_map)

----------------------------------------------------------------------------
\* C1: the code table of a nonempty frequency table is prefix-free: for two
\* distinct symbols neither codeword is a prefix of the other.
C1_PrefixFree ==
  (Coded /\ NSyms >= 1) =>
    /\ DOMAIN codes = Keys(freq_map)
    /\ \A a, b \in DOMAIN codes :
         a # b => /\ ~IsPrefix(codes[a], codes[b])
                  /\ codes[a] # codes[b]

C1_Witness ==
  /\ pc = "coded"
  /\ NSyms = 3
  /\ \E a, b \in DOMAIN codes : Len(codes[a]) = 1 /\ Len(codes[b]) = 2

\* C3: every codeword has length >= 1; a single-symbol table {X: f} gives a
\* synthetic root (left: the sole leaf, right: a placeholder of frequency 0
\* with no symbol and no children) and the code table {X: "0"}.
C3_NonEmptyCodes ==
  (Coded /\ NSyms >= 1) =>
    /\ \A a \in DOMAIN codes : Len(codes[a]) >= 1
    /\ NSyms = 1 =>
         LET X == freq_map[1][1]
             r == nodes[root]
         IN /\ r.symbol = None
            /\ r.freq = freq_map[1][2]
            /\ r.left # NoNode /\ r.right # NoNode /\ r.left # r.right
            /\ nodes[r.left] = Node(freq_map[1][2], X, NoNode, NoNode)
            /\ nodes[r.right] = Node(0, None, NoNode, NoNode)
            /\ DOMAIN codes = {X}
            /\ codes[X] = <<0>>

C3_Witness == pc = "coded" /\ NSyms = 1 /\ freq_map[1][2] = 2

\* C4: decoding the encoding of a text, by walking the tree from the root,
\* gives the text back; the empty text encodes to the empty bitstring.
C4_RoundTrip ==
  pc = "encoded" =>
    /\ Decode(nodes, root, encoded) = text
    /\ text = <<>> => encoded = <<>>

C4_Witness ==
  /\ pc = "encoded"
  /\ NSyms = 3
  /\ Len(text) = 2
  /\ text[1] # text[2]
  /\ Len(encoded) = 3

C4_WitnessEmpty == pc = "encoded" /\ text = <<>> /\ NSyms >= 1

----------------------------------------------------------------------------
\* Every other code over the same frequencies.

Weight(fm, S) == SumSeq([k \in 1..Cardinality(S) |->
                   fm[CHOOSE i \in S : Cardinality({j \in S : j < i}) = k - 1][2]])

\* The weighted codeword lengths of all binary trees whose leaves are the
\* items S of the table and whose inner nodes have two children: a tree over
\* S splits S in two, and every leaf below the split is one level deeper.
RECURSIVE TreeCosts(_, _)
TreeCosts(fm, S) ==
  IF Cardinality(S) = 1 THEN {0}
  ELSE LET m == CHOOSE x \in S : \A y \in S : x <= y
       IN UNION {{a + b + Weight(fm, S) :
                    a \in TreeCosts(fm, L), b \in TreeCosts(fm, S \ L)} :
                 L \in {X \in SUBSET S : m \in X /\ X # S}}

Pow2(n) == 2 ^ n

\* The codeword lengths (each at most the number of symbols) of the
\* prefix-free binary codes: those that satisfy Kraft's inequality.
KraftLengths(n) ==
  {l \in [1..n -> 1..n] :
     SumSeq([i \in 1..n |-> Pow2(n - l[i])]) <= Pow2(n)}

\* The sum over the symbols of count * len(code).
RECURSIVE WeightedLength(_, _)
WeightedLength(fm, cs) ==
  IF fm = <<>> THEN 0
  ELSE Head(fm)[2] * Len(cs[Head(fm)[1]]) + WeightedLength(Tail(fm), cs)

\* The tables that hold the same items as fm, in every iteration order.
Orders(fm) ==
  {[i \in DOMAIN fm |-> fm[q[i]]] :
     q \in {r \in [DOMAIN fm -> DOMAIN fm] :
              \A i, j \in DOMAIN fm : i # j => r[i] # r[j]}}

CodesOf(fm) ==
  LET t == build_huffman_tree(fm) IN build_codes(t.nodes, t.root)

\* The tree with every node named by its path and labelled by its
\* frequency, and with its symbol as well.
FreqShape(ns, rt) == {<<x[1], ns[x[2]].freq>> : x \in Walk(ns, rt, <<>>)}
LabelledShape(ns, rt) ==
  {<<x[1], ns[x[2]].freq, ns[x[2]].symbol>> : x \in Walk(ns, rt, <<>>)}

ShapeOf(fm) == LET t == build_huffman_tree(fm) IN FreqShape(t.nodes, t.root)
LabelledShapeOf(fm) ==
  LET t == build_huffman_tree(fm) IN LabelledShape(t.nodes, t.root)

\* The (count, codeword) pairs of a code table.
CountCodes(fm, cs) == {<<CountOf(fm, sym), cs[sym]>> : sym \in DOMAIN cs}

UniqueCount(fm, sym) ==
  \A other \in Keys(fm) \ {sym} : CountOf(fm, other) # CountOf(fm, sym)

----------------------------------------------------------------------------
\* C2: with two symbols or more the Huffman code is optimal: its weighted
\* codeword length, the sum of count * len(code), is at most that of every
\* binary tree over the same leaves and of every prefix-free code.
C2_Optimal ==
  (pc = "coded" /\ NSyms >= 2) =>
    LET mine == WeightedLength(freq_map, codes)
    IN /\ \A c \in TreeCosts(freq_map, DOMAIN freq_map) : mine <= c
       /\ \A l \in KraftLengths(NSyms) :
            mine <= SumSeq([i \in 1..NSyms |-> freq_map[i][2] * l[i]])

\* A table on which some tree is strictly worse than the Huffman tree.
C2_Witness ==
  /\ pc = "coded"
  /\ NSyms = 3
  /\ \E c \in TreeCosts(freq_map, DOMAIN freq_map) :
       WeightedLength(freq_map, codes) < c

\* C5 as stated: an empty table fails with EmptyInputError.
C5_EmptyInputError ==
  (NSyms = 0 /\ pc \notin {"start", "merge"}) =>
    (pc = "failed" /\ err = "EmptyInputError")

\* C5: build_huffman_tree on an empty table raises IndexError (heap[0] on
\* the empty list); it never returns a node and creates none.
C5_EmptyRaisesIndexError ==
  NSyms = 0 =>
    /\ pc \in {"start", "merge", "failed"}
    /\ root = NoNode
    /\ nodes = <<>>
    /\ heap = {}
    /\ merges = 0
    /\ pc = "failed" <=> err = "IndexError"
    /\ pc # "failed" <=> err = "none"

C5_Witness == NSyms = 0 /\ pc = "failed" /\ err = "IndexError"

HasUnknown == \E i \in DOMAIN text : text[i] \notin Keys(freq_map)
Encoding == NSyms >= 1 /\ pc \in {"encoded", "failed"}

\* C6 as stated: a text with a symbol absent from the code table fails with
\* UnknownSymbolError.
C6_UnknownSymbolError ==
  (Encoding /\ HasUnknown) => (pc = "failed" /\ err = "UnknownSymbolError")

\* C6: encode_text raises KeyError exactly when some symbol of the text, at
\* any position, is absent from the code table; then no bitstring is
\* returned, not even the encoding of a prefix, and the code table is the
\* one build_codes returned.
C6_UnknownRaisesKeyError ==
  Encoding =>
    /\ HasUnknown <=> pc = "failed"
    /\ pc = "failed" => (err = "KeyError" /\ encoded = <<>>)
    /\ pc = "encoded" => err = "none"
    /\ DOMAIN codes = Keys(freq_map)
    /\ codes = build_codes(nodes, root)

\* An unknown symbol in the middle of the text, known ones around it.
C6_Witness ==
  /\ pc = "failed"
  /\ NSyms >= 1
  /\ Len(text) = 3
  /\ text[1] \in Keys(freq_map)
  /\ text[2] \notin Keys(freq_map)
  /\ text[3] \in Keys(freq_map)

C6_WitnessFirst ==
  pc = "failed" /\ NSyms >= 1 /\ Len(text) = 2
    /\ text[1] \notin Keys(freq_map) /\ text[2] \in Keys(freq_map)

C6_WitnessLast ==
  pc = "failed" /\ NSyms >= 1 /\ Len(text) = 2
    /\ text[1] \in Keys(freq_map) /\ text[2] \notin Keys(freq_map)

\* C7 as stated: the same items iterated in another order give the same
\* tree and the same code table.
C7_OrderIndependent ==
  pc = "coded" =>
    \A g \in Orders(freq_map) :
      /\ CodesOf(g) = codes
      /\ LabelledShapeOf(g) = LabelledShape(nodes, root)

\* C7: the same items iterated in another order give the same tree once
\* every node is labelled by its frequency alone, and the same set of
\* (count, codeword) pairs: the code tables agree up to an exchange of
\* symbols of equal count, and a symbol whose count no other symbol has
\* gets the same codeword in every order.
C7_OrderIndependentUpToTies ==
  (pc = "coded" /\ NSyms >= 1) =>
    \A g \in Orders(freq_map) :
      /\ ShapeOf(g) = FreqShape(nodes, root)
      /\ CountCodes(g, CodesOf(g)) = CountCodes(freq_map, codes)
      /\ \A sym \in Keys(freq_map) :
           UniqueCount(freq_map, sym) => CodesOf(g)[sym] = codes[sym]

\* Three symbols, two of them of equal count, the third with a count and a
\* codeword of its own, and an order that changes the code table.
C7_Witness ==
  /\ pc = "coded"
  /\ NSyms = 3
  /\ \E a, b, c \in Keys(freq_map) :
       /\ a # b
       /\ CountOf(freq_map, a) = CountOf(freq_map, b)
       /\ UniqueCount(freq_map, c)
  /\ \E g \in Orders(freq_map) : CodesOf(g) # codes

\* C8: the average codeword length is at least the entropy, so the
\* efficiency is at most 100%; for a single symbol the entropy is 0.0, the
\* average length 1.0 and the efficiency 0.0%.
C8_EntropyBound ==
  (pc = "coded" /\ NSyms >= 1) =>
    LET H == entropy_from_counts(freq_map)
        Lbar == average_code_length(freq_map, codes)
    IN /\ FLeq(H, Lbar)
       /\ FLeq(Efficiency(H, Lbar), FromInt(100))
       /\ NSyms = 1 => /\ H = FZero
                       /\ Lbar = FromInt(1)
                       /\ Efficiency(H, Lbar) = FZero

\* The same for the tables with counts up to MaxCount alone.
C8_EntropyBoundSmallCounts == freq_map \in FreqMaps => C8_EntropyBound

\* (frequency, sequence number) order of two heap entries.
Before(a, b) == a[1] < b[1] \/ (a[1] = b[1] /\ a[2] < b[2])

\* C9: a merge step takes the two smallest entries under (frequency,
\* sequence number), an earlier entry before a later one of equal frequency;
\* the first is the left child and the second the right child of a new node
\* whose frequency is their sum, pushed with a sequence number above every
\* number issued before.
C9_MergeStep ==
  [][(pc = "merge" /\ merges' # merges) =>
       \E e1, e2 \in heap :
         /\ e1 # e2
         /\ \A o \in heap \ {e1} : Before(e1, o)
         /\ \A o \in heap \ {e1, e2} : Before(e2, o)
         /\ Len(nodes') = Len(nodes) + 1
         /\ SubSeq(nodes', 1, Len(nodes)) = nodes
         /\ nodes'[Len(nodes')] = Node(e1[1] + e2[1], None, e1[3], e2[3])
         /\ nodes'[Len(nodes')].freq = nodes[e1[3]].freq + nodes[e2[3]].freq
         /\ \E new \in heap' :
              /\ heap' = (heap \ {e1, e2}) \cup {new}
              /\ new[1] = e1[1] + e2[1]
              /\ new[3] = Len(nodes')
              /\ \A u \in issued : new[2] > u
              /\ issued' = issued \cup {new[2]}]_vars

\* A merge whose left child is a leaf and whose right child is an earlier
\* merge of the same frequency: the leaf entered the heap first.
C9_Witness ==
  /\ pc = "merge"
  /\ merges = 2
  /\ LET m == nodes[Len(nodes)]
     IN /\ IsChildless(nodes, m.left)
        /\ ~IsChildless(nodes, m.right)
        /\ nodes[m.left].freq = nodes[m.right].freq

Leaves(ns, rt) == {x \in Walk(ns, rt, <<>>) : IsChildless(ns, x[2])}

\* C10: with n >= 2 symbols the loop ends after exactly n - 1 merges with
\* one entry in the heap (each merge takes one entry off it); the root's
\* frequency is the sum of the counts, no node has two parents, the leaves
\* are the n symbols, once each, and the code table maps exactly these
\* symbols, each to a codeword as long as its leaf is deep.
C10_Termination ==
  NSyms >= 2 =>
    /\ pc = "merge" => (merges + Cardinality(heap) = NSyms /\ heap # {})
    /\ pc \notin {"start", "merge"} =>
         /\ merges = NSyms - 1
         /\ Cardinality(heap) = 1
         /\ \A e \in heap : e[3] = root
         /\ err # "IndexError"
         /\ nodes[root].freq = SumSeq(Values(freq_map))
         /\ \A id \in DOMAIN nodes : Cardinality(Parents(nodes, id)) <= 1
         /\ Parents(nodes, root) = {}
         /\ \A sym \in Keys(freq_map) :
              Cardinality({x \in Leaves(nodes, root) :
                             nodes[x[2]].symbol = sym}) = 1
         /\ \A x \in Leaves(nodes, root) :
              /\ nodes[x[2]].symbol \in Keys(freq_map)
              /\ nodes[x[2]].freq = CountOf(freq_map, nodes[x[2]].symbol)
    /\ Coded =>
         /\ DOMAIN codes = Keys(freq_map)
         /\ \A x \in Leaves(nodes, root) :
              Len(codes[nodes[x[2]].symbol]) = Len(x[1])

C10_Witness ==
  /\ pc = "coded"
  /\ NSyms = 3
  /\ merges = 2
  /\ \E sym \in DOMAIN codes : Len(codes[sym]) = 2

=============================================================================
